---- MODULE Spec2Model ----
(***************************************************************************)
(* Session orchestration core of the Khmer speech-to-text application:     *)
(* the pynput listener thread (KeyboardThread), the Qt main thread         *)
(* (MainWindow slots, QTimer callbacks), the AudioRecorder and its worker, *)
(* the TranscriptionManager threads and the TextInserter threads.          *)
(***************************************************************************)
EXTENDS Integers, Sequences, FiniteSets, TLC

\* ------------------------------------------------------------------ bounds
MaxSessions == 2   \* start events (hotkey engagements / slot calls) created
MaxFrames == 1     \* chunks appended to AudioRecorder.frames per recording

\* ------------------------------------------------------------ input domains
PhysKeys == {"ctrl_l", "ctrl_r", "space", "a"}
ShortcutInputs == {<<"ctrl", "space">>, <<"control">>}
Texts == <<"a", "b", "c", "d">>   \* what the provider hears in each session's audio
NoText == ""
NoFile == -1
ErrKinds == {"network", "api", "other"}
Methods == {"clipboard", "keypress"}
InitialClipboard == "x"
Hotkey == "space"

VARIABLES
    \* KeyboardThread (listener thread)
    physDown,           \* keys physically held (the OS's view)
    currently_pressed,  \* KeyboardThread.currently_pressed
    shortcut_keys,      \* KeyboardThread.shortcut_keys
    kb_is_recording,    \* KeyboardThread.is_recording
    updRemaining,       \* parts update_shortcut has still to add
    kbLog,              \* signals emitted so far: "E" recording_started, "R" recording_stopped
    intervalEngages,    \* recording_started emitted in the current superset-holding interval
    starts,             \* start events created so far
    listener,           \* KeyboardThread.run: "starting", "running" or "failed"
    \* Qt main thread
    queue,              \* queued signal deliveries to the main thread
    timers,             \* pending QTimer.singleShot(_start_recording_impl)
    recording,          \* MainWindow.recording
    transcribing,       \* MainWindow.transcribing
    status_label,       \* MainWindow.status_label text
    overlay,            \* OverlayWidget.current_state
    statusLog,          \* status_label texts set during the first session
    tray,               \* the last tray_icon.showMessage
    sessions,           \* start_recording calls that passed the guard
    \* AudioRecorder
    rec_is_recording,   \* AudioRecorder.is_recording
    stream,             \* AudioRecorder.stream is open
    frames,             \* len(AudioRecorder.frames)
    workers,            \* live _record threads
    rec_result,         \* how the last AudioRecorder.start_recording / stop_recording ended
    clock,              \* int(time.time()) as _save_to_wav reads it
    audio_file,         \* per session: the timestamp in the name of its WAV file
    \* TranscriptionManager
    modelLoaded,        \* "gemini_flash" in TranscriptionManager.models
    apiKey,             \* settings_manager.get_api_key("google") is set
    tthreads,           \* running _transcribe_thread, by the session of its audio file
    outcome,            \* per session: the outcome delivered to MainWindow
    \* TextInserter
    method,             \* setting insertion_method
    ithreads,           \* running _insert_with_delay threads
    clipboard,          \* system clipboard content
    early_frames,       \* frames holds a chunk read while no session was under way
    keypress,           \* the _insert_via_keypress call followed key by key
    \* main.py, one record per started process
    lock_file,          \* LOCK_FILE on disk: NoLock or its inode and content
    proc,               \* per process: position in main(), lock handle, PID read
    inodes              \* files created at LOCK_FILE so far

kbVars == <<physDown, currently_pressed, shortcut_keys, kb_is_recording,
            updRemaining, kbLog, intervalEngages, starts, listener>>
mwVars == <<queue, timers, recording, transcribing, status_label, overlay,
            statusLog, tray, sessions>>
recVars == <<rec_is_recording, stream, frames, workers, rec_result, clock, audio_file,
             early_frames>>
tmVars == <<modelLoaded, apiKey, tthreads, outcome>>
tiVars == <<method, ithreads, clipboard, keypress>>
mainVars == <<lock_file, proc, inodes>>
vars == <<kbVars, mwVars, recVars, tmVars, tiVars, mainVars>>

\* ================================================================ helpers
Ev(t, s, v) == [type |-> t, sid |-> s, val |-> v]

\* KeyboardThread._normalize_key
NormalizeKey(key) ==
    IF key \in {"ctrl_l", "ctrl_r"} THEN "ctrl"
    ELSE IF key \in {"alt_l", "alt_r", "alt_gr"} THEN "alt"
    ELSE IF key \in {"shift_l", "shift_r"} THEN "shift"
    ELSE key

\* key_mapping of KeyboardThread.update_shortcut
MapKeyName(part) ==
    CASE part = "control" -> "ctrl"
      [] part = "ctl" -> "ctrl"
      [] part = "command" -> "cmd"
      [] part = "windows" -> "cmd"
      [] part = "win" -> "cmd"
      [] part = "option" -> "alt"
      [] part = "return" -> "enter"
      [] OTHER -> part

RECURSIVE ParseShortcut(_)
ParseShortcut(parts) ==
    IF parts = <<>> THEN {}
    ELSE {MapKeyName(Head(parts))} \cup ParseShortcut(Tail(parts))

\* check_shortcut_pressed comparing the two sets for equality
CheckShortcutEqual(pressed, keys) == pressed # {} /\ pressed = keys

\* check_shortcut_pressed without its fast path for the empty set
CheckShortcutAll(pressed, keys) == \A k \in keys : k \in pressed

\* KeyboardThread.check_shortcut_pressed
CheckShortcutPressed(pressed, keys) ==
    IF pressed = {} THEN FALSE
    ELSE \A k \in keys : k \in pressed

\* the held physical keys, as logical keys, cover the configured combination
PhysSuperset(down, keys) == keys \subseteq {NormalizeKey(k) : k \in down}

\* ============================================ KeyboardThread (listener thread)
\* recording_started.emit(): queued delivery to MainWindow.start_recording
EmitStarted ==
    /\ kb_is_recording' = TRUE
    /\ kbLog' = Append(kbLog, "E")
    /\ queue' = Append(queue, Ev("start", 0, NoText))
    /\ starts' = starts + 1

\* recording_stopped.emit(): queued delivery to MainWindow.stop_recording
EmitStopped ==
    /\ kb_is_recording' = FALSE
    /\ kbLog' = Append(kbLog, "R")
    /\ queue' = Append(queue, Ev("stop", 0, NoText))
    /\ starts' = starts

\* the engagements of the current interval in which the held keys cover the combination
Interval(fired) ==
    intervalEngages' =
        IF PhysSuperset(physDown', shortcut_keys')
        THEN intervalEngages + (IF fired THEN 1 ELSE 0)
        ELSE 0

\* on_press without the is_recording test (level-triggered)
ShortcutEngagedLevel(pressed) == CheckShortcutPressed(pressed, shortcut_keys)

\* the condition of on_press to emit recording_started
ShortcutEngaged(pressed) ==
    CheckShortcutPressed(pressed, shortcut_keys) /\ ~kb_is_recording

\* the condition of on_release to emit recording_stopped
ShortcutReleased(pressed) ==
    kb_is_recording /\ ~CheckShortcutPressed(pressed, shortcut_keys)

\* KeyboardThread.on_press; a key already held is the OS's key repeat
OnPress(key) ==
    LET key_str == NormalizeKey(key)
        pressed == currently_pressed \cup {key_str}
        fire == ShortcutEngaged(pressed)
    IN  /\ listener = "running"
        /\ fire => starts < MaxSessions
        /\ physDown' = physDown \cup {key}
        /\ currently_pressed' = pressed
        /\ IF fire THEN EmitStarted
           ELSE UNCHANGED <<kb_is_recording, kbLog, queue, starts>>
        /\ UNCHANGED <<shortcut_keys, updRemaining, listener>>
        /\ Interval(fire)

\* KeyboardThread.on_release
OnRelease(key) ==
    LET key_str == NormalizeKey(key)
        pressed == currently_pressed \ {key_str}
        fire == ShortcutReleased(pressed)
    IN  /\ listener = "running"
        /\ key \in physDown
        /\ physDown' = physDown \ {key}
        /\ currently_pressed' = pressed
        /\ IF fire THEN EmitStopped
           ELSE UNCHANGED <<kb_is_recording, kbLog, queue, starts>>
        /\ UNCHANGED <<shortcut_keys, updRemaining, listener>>
        /\ Interval(FALSE)

\* KeyboardThread.run: the pynput Listener is created and started, or the
\* exception is caught and logged and the thread ends
ListenerRun(ok) ==
    /\ listener = "starting"
    /\ listener' = IF ok THEN "running" ELSE "failed"
    /\ UNCHANGED <<physDown, currently_pressed, shortcut_keys, kb_is_recording,
                   updRemaining, kbLog, intervalEngages, starts, queue>>

\* KeyboardThread.update_shortcut, called on the main thread by save_settings:
\* the set is emptied first, then filled one key at a time
UpdateShortcutBegin(parts) ==
    /\ updRemaining = <<>>
    /\ shortcut_keys' = {}
    /\ updRemaining' = parts
    /\ UNCHANGED <<physDown, currently_pressed, kb_is_recording, kbLog, queue, starts,
                   listener>>
    /\ Interval(FALSE)

UpdateShortcutStep ==
    /\ updRemaining # <<>>
    /\ shortcut_keys' = shortcut_keys \cup {MapKeyName(Head(updRemaining))}
    /\ updRemaining' = Tail(updRemaining)
    /\ UNCHANGED <<physDown, currently_pressed, kb_is_recording, kbLog, queue, starts,
                   listener>>
    /\ Interval(FALSE)

\* ========================================================== AudioRecorder
\* stop_recording with a _save_to_wav that writes the file whatever frames holds
RecorderStopUnchecked(joined, saveOk) ==
    IF ~rec_is_recording
    THEN [ok |-> FALSE, stream |-> stream, workers |-> workers,
          result |-> "Not recording"]
    ELSE [ok |-> saveOk,
          stream |-> FALSE,
          workers |-> IF joined /\ workers > 0 THEN workers - 1 ELSE workers,
          result |-> IF saveOk THEN "saved" ELSE "Error saving WAV file"]

\* AudioRecorder.stop_recording with _save_to_wav:
\* joined: the bounded join saw the worker end; saveOk: wave.open wrote the file
RecorderStop(joined, saveOk) ==
    IF ~rec_is_recording
    THEN [ok |-> FALSE, stream |-> stream, workers |-> workers,
          result |-> "Not recording"]
    ELSE [ok |-> frames > 0 /\ saveOk,
          stream |-> FALSE,
          workers |-> IF joined /\ workers > 0 THEN workers - 1 ELSE workers,
          result |-> IF frames = 0 THEN "No audio data to save"
                     ELSE IF saveOk THEN "saved" ELSE "Error saving WAV file"]

\* the combination is not engaged, MainWindow is not recording and no signal of
\* the listener waits for the main thread
NoSession ==
    /\ ~kb_is_recording
    /\ ~recording
    /\ \A i \in 1..Len(queue) : queue[i].type \notin {"start", "stop"}

\* AudioRecorder._record: one chunk read and appended
RecordChunk ==
    /\ workers > 0
    /\ rec_is_recording
    /\ stream
    /\ frames < MaxFrames
    /\ frames' = frames + 1
    /\ early_frames' = (early_frames \/ NoSession)
    /\ UNCHANGED <<rec_is_recording, stream, workers, rec_result, clock, audio_file>>
    /\ UNCHANGED <<mainVars, kbVars, mwVars, tmVars, tiVars>>

\* AudioRecorder._record: the loop sees is_recording false and the thread ends
RecordExit ==
    /\ workers > 0
    /\ ~rec_is_recording
    /\ workers' = workers - 1
    /\ UNCHANGED <<rec_is_recording, stream, frames, rec_result, clock, audio_file,
                   early_frames>>
    /\ UNCHANGED <<mainVars, kbVars, mwVars, tmVars, tiVars>>

\* AudioRecorder._record: stream.read raises (device lost, stream closed)
RecordError ==
    /\ workers > 0
    /\ rec_is_recording' = FALSE
    /\ workers' = workers - 1
    /\ UNCHANGED <<stream, frames, rec_result, clock, audio_file, early_frames>>
    /\ UNCHANGED <<mainVars, kbVars, mwVars, tmVars, tiVars>>

\* the clock reaches the next second; only the seconds in which a file was
\* saved are told apart
Tick ==
    /\ \E s \in DOMAIN audio_file : audio_file[s] = clock
    /\ clock' = clock + 1
    /\ UNCHANGED <<rec_is_recording, stream, frames, workers, rec_result, audio_file,
                   early_frames>>
    /\ UNCHANGED <<mainVars, kbVars, mwVars, tmVars, tiVars>>

\* ===================================================== MainWindow (main thread)
\* the main thread runs one handler at a time; update_shortcut is one of them
MainFree == updRemaining = <<>>

St(label, ov) == [label |-> label, overlay |-> ov]

\* the status changes the observers saw during the first session
Log(n, entries) == IF n = 1 THEN statusLog \o entries ELSE statusLog

\* start_recording without its guard
AlreadyRecordingUnchecked == FALSE

\* the guard of MainWindow.start_recording
AlreadyRecording == recording

\* MainWindow.start_recording
StartRecording(q) ==
    /\ queue' = q
    /\ IF AlreadyRecording
       THEN UNCHANGED <<timers, recording, status_label, overlay, statusLog, sessions>>
       ELSE /\ recording' = TRUE
            /\ sessions' = sessions + 1
            /\ status_label' = "Recording..."
            /\ overlay' = "recording"
            /\ statusLog' = Log(sessions + 1, <<St("Recording...", "recording")>>)
            /\ timers' = timers + 1
    /\ UNCHANGED <<transcribing, tray, recVars, tmVars, tiVars>>

\* start_recording without its guard
RecorderActiveUnchecked == FALSE

\* the guard of AudioRecorder.start_recording
RecorderActive == rec_is_recording

\* MainWindow._start_recording_impl, run by the QTimer: AudioRecorder.start_recording;
\* it returns None after the warning "Already recording" or after the thread
\* start, or pyaudio.open raises
StartRecordingImpl(openOk) ==
    /\ MainFree
    /\ timers > 0
    /\ timers' = timers - 1
    /\ IF RecorderActive
       THEN /\ UNCHANGED <<rec_is_recording, stream, frames, workers, early_frames>>
            /\ rec_result' = "Already recording"
       ELSE /\ rec_is_recording' = TRUE
            /\ frames' = 0
            /\ early_frames' = FALSE
            /\ IF openOk
               THEN stream' = TRUE /\ workers' = workers + 1 /\ rec_result' = "started"
               ELSE UNCHANGED <<stream, workers>> /\ rec_result' = "open raised"
    /\ UNCHANGED <<clock, audio_file>>
    /\ UNCHANGED <<queue, recording, transcribing, status_label, overlay, statusLog,
                   tray, sessions>>
    /\ UNCHANGED <<mainVars, kbVars, tmVars, tiVars>>

\* TranscriptionManager.transcribe up to the thread start: what it emits at once
TranscribeVerdict(fileExists) ==
    IF ~fileExists THEN "Audio file not found"
    ELSE IF ~modelLoaded
         THEN IF ~apiKey THEN "missing_api_key:gemini_flash"
              ELSE "Model gemini_flash not available"
         ELSE "started"

\* MainWindow.stop_recording, with AudioRecorder.stop_recording,
\* TranscriptionManager.transcribe and the slots its signals call directly
StopRecording(q, joined, saveOk) ==
    /\ queue' = q
    /\ IF ~recording
       THEN /\ UNCHANGED <<recording, transcribing, status_label, overlay, statusLog, tray>>
            /\ UNCHANGED <<recVars, tthreads, outcome>>
       ELSE LET r == RecorderStop(joined, saveOk)
                v == TranscribeVerdict(r.ok)
            IN  /\ recording' = FALSE
                /\ rec_is_recording' = FALSE
                /\ stream' = r.stream
                /\ workers' = r.workers
                /\ rec_result' = r.result
                /\ audio_file' = IF r.ok THEN [audio_file EXCEPT ![sessions] = clock]
                                  ELSE audio_file
                /\ UNCHANGED <<frames, clock, early_frames>>
                /\ IF ~r.ok
                   THEN /\ status_label' = "Failed to save recording"
                        /\ overlay' = "idle"
                        /\ statusLog' = Log(sessions,
                               <<St("Processing recording...", overlay),
                                 St("Failed to save recording", "idle")>>)
                        /\ UNCHANGED <<transcribing, tray, tthreads, outcome>>
                   ELSE IF v = "started"
                   THEN /\ transcribing' = TRUE
                        /\ status_label' = "Transcribing..."
                        /\ overlay' = "transcribing"
                        /\ statusLog' = Log(sessions,
                               <<St("Processing recording...", overlay),
                                 St("Transcribing...", "transcribing")>>)
                        /\ tthreads' = tthreads \cup {[sid |-> sessions]}
                        /\ UNCHANGED <<tray, outcome>>
                   ELSE /\ transcribing' = FALSE
                        /\ status_label' = "Error during transcription"
                        /\ overlay' = "idle"
                        /\ statusLog' = Log(sessions,
                               <<St("Processing recording...", overlay),
                                 St("Error during transcription", "idle")>>)
                        /\ tray' = v
                        /\ outcome' = [outcome EXCEPT ![sessions] = "error"]
                        /\ UNCHANGED tthreads
    /\ UNCHANGED <<timers, sessions, modelLoaded, apiKey, tiVars>>

\* insert_text_async handed the text of another session
InsertTextAsyncStale(e) ==
    [sid |-> e.sid, text |-> Texts[MaxSessions], method |-> method,
     pc |-> "delay", snap |-> NoText]

\* TextInserter.insert_text_async as on_transcription_completed calls it:
\* the thread it starts
InsertTextAsync(e) ==
    [sid |-> e.sid, text |-> e.val, method |-> method, pc |-> "delay", snap |-> NoText]

\* MainWindow.on_transcription_completed
OnTranscriptionCompleted(e) ==
    /\ transcribing' = FALSE
    /\ status_label' = "Idle"
    /\ overlay' = "idle"
    /\ statusLog' = Log(sessions, <<St("Idle", "idle")>>)
    /\ outcome' = [outcome EXCEPT ![e.sid] = IF e.val # NoText THEN "text" ELSE "empty"]
    /\ IF e.val # NoText
       THEN /\ ithreads' = ithreads \cup {InsertTextAsync(e)}
            /\ tray' = "Transcription Completed"
       ELSE /\ UNCHANGED ithreads
            /\ tray' = "Transcription Failed"
    /\ UNCHANGED <<method, clipboard, keypress>>

\* on_transcription_error that leaves the transcribing flag set
OnTranscriptionErrorSticky(e) ==
    /\ UNCHANGED transcribing
    /\ status_label' = "Error during transcription"
    /\ overlay' = "idle"
    /\ statusLog' = Log(sessions, <<St("Error during transcription", "idle")>>)
    /\ tray' = e.val
    /\ outcome' = [outcome EXCEPT ![e.sid] = "error"]
    /\ UNCHANGED tiVars

\* MainWindow.on_transcription_error
OnTranscriptionError(e) ==
    /\ transcribing' = FALSE
    /\ status_label' = "Error during transcription"
    /\ overlay' = "idle"
    /\ statusLog' = Log(sessions, <<St("Error during transcription", "idle")>>)
    /\ tray' = e.val
    /\ outcome' = [outcome EXCEPT ![e.sid] = "error"]
    /\ UNCHANGED tiVars

\* the main thread takes the next queued signal delivery
DeliverStart ==
    /\ MainFree
    /\ queue # <<>>
    /\ Head(queue).type = "start"
    /\ StartRecording(Tail(queue))
    /\ UNCHANGED <<mainVars, kbVars>>

DeliverStop ==
    /\ MainFree
    /\ queue # <<>>
    /\ Head(queue).type = "stop"
    /\ \E joined \in BOOLEAN, saveOk \in BOOLEAN : StopRecording(Tail(queue), joined, saveOk)
    /\ UNCHANGED <<mainVars, kbVars>>

DeliverCompleted ==
    /\ MainFree
    /\ queue # <<>>
    /\ Head(queue).type = "completed"
    /\ queue' = Tail(queue)
    /\ OnTranscriptionCompleted(Head(queue))
    /\ UNCHANGED <<timers, recording, sessions>>
    /\ UNCHANGED <<mainVars, kbVars, recVars, modelLoaded, apiKey, tthreads>>

DeliverError ==
    /\ MainFree
    /\ queue # <<>>
    /\ Head(queue).type = "error"
    /\ queue' = Tail(queue)
    /\ OnTranscriptionError(Head(queue))
    /\ UNCHANGED <<timers, recording, sessions>>
    /\ UNCHANGED <<mainVars, kbVars, recVars, modelLoaded, apiKey, tthreads>>

\* the slots called directly, by any caller on the main thread
SlotStartRecording ==
    /\ MainFree
    /\ starts < MaxSessions
    /\ starts' = starts + 1
    /\ StartRecording(queue)
    /\ UNCHANGED <<physDown, currently_pressed, shortcut_keys, kb_is_recording,
                   updRemaining, kbLog, intervalEngages, listener>>
    /\ UNCHANGED mainVars

SlotStopRecording ==
    /\ MainFree
    /\ \E joined \in BOOLEAN, saveOk \in BOOLEAN : StopRecording(queue, joined, saveOk)
    /\ UNCHANGED <<mainVars, kbVars>>

\* ============================================ TranscriptionManager threads
\* the session whose frames the file of session sid holds: the last one that
\* wrote a file of that name
FileOwner(sid) ==
    CHOOSE s \in DOMAIN audio_file :
        /\ audio_file[s] = audio_file[sid]
        /\ \A u \in DOMAIN audio_file : audio_file[u] = audio_file[sid] => u <= s

\* the error value _transcribe_thread emits for an exception of the given kind
ErrorClass(kind) ==
    CASE kind = "network" -> "network_error:gemini_flash"
      [] kind = "api" -> "api_error:gemini_flash"
      [] OTHER -> "Transcription error: failure"

\* _transcribe_thread with transcription_completed connected directly: the slot
\* runs on the transcription thread
TranscribeReturnDirect(t, text) ==
    /\ tthreads' = tthreads \ {t}
    /\ OnTranscriptionCompleted(Ev("completed", t.sid, text))
    /\ UNCHANGED <<queue, timers, recording, sessions>>
    /\ UNCHANGED <<mainVars, kbVars, recVars, modelLoaded, apiKey>>

\* _transcribe_thread: model.transcribe returns, transcription_completed is emitted
TranscribeReturn(t, text) ==
    /\ tthreads' = tthreads \ {t}
    /\ queue' = Append(queue, Ev("completed", t.sid, text))
    /\ UNCHANGED <<timers, recording, transcribing, status_label, overlay,
                   statusLog, tray, sessions>>
    /\ UNCHANGED <<mainVars, kbVars, recVars, modelLoaded, apiKey, outcome, tiVars>>

\* _transcribe_thread: model.transcribe raises, transcription_error is emitted
TranscribeRaise(t, kind) ==
    /\ tthreads' = tthreads \ {t}
    /\ queue' = Append(queue, Ev("error", t.sid, ErrorClass(kind)))
    /\ UNCHANGED <<timers, recording, transcribing, status_label, overlay,
                   statusLog, tray, sessions>>
    /\ UNCHANGED <<mainVars, kbVars, recVars, modelLoaded, apiKey, outcome, tiVars>>

\* ==================================================== TextInserter threads

Move(t, pc, snap) == (ithreads \ {t}) \cup {[t EXCEPT !.pc = pc, !.snap = snap]}

\* _insert_via_clipboard: original_clipboard = pyperclip.paste()
InsertSnapshot(t) ==
    /\ t.pc = "delay"
    /\ t.method = "clipboard"
    /\ ithreads' = Move(t, "snapped", clipboard)
    /\ UNCHANGED <<method, clipboard, keypress>>
    /\ UNCHANGED <<mainVars, kbVars, mwVars, recVars, tmVars>>

\* _insert_via_clipboard: pyperclip.copy(text)
InsertCopy(t) ==
    /\ t.pc = "snapped"
    /\ clipboard' = t.text
    /\ ithreads' = Move(t, "copied", t.snap)
    /\ UNCHANGED <<method, keypress>>
    /\ UNCHANGED <<mainVars, kbVars, mwVars, recVars, tmVars>>

\* _insert_via_clipboard: the simulated Ctrl+V; an exception ends the call
InsertPaste(t, ok) ==
    /\ t.pc = "copied"
    /\ UNCHANGED clipboard
    /\ IF ok
       THEN ithreads' = Move(t, "pasted", t.snap)
       ELSE ithreads' = ithreads \ {t}
    /\ UNCHANGED <<method, keypress>>
    /\ UNCHANGED <<mainVars, kbVars, mwVars, recVars, tmVars>>

\* _insert_via_clipboard: pyperclip.copy(original_clipboard)
InsertRestore(t) ==
    /\ t.pc = "pasted"
    /\ clipboard' = t.snap
    /\ ithreads' = ithreads \ {t}
    /\ UNCHANGED <<method, keypress>>
    /\ UNCHANGED <<mainVars, kbVars, mwVars, recVars, tmVars>>

\* _insert_via_keypress: the characters typed one by one, or an exception
InsertKeypress(t, ok) ==
    /\ t.pc = "delay"
    /\ t.method = "keypress"
    /\ UNCHANGED clipboard
    /\ ithreads' = ithreads \ {t}
    /\ UNCHANGED <<method, keypress>>
    /\ UNCHANGED <<mainVars, kbVars, mwVars, recVars, tmVars>>

\* ------------------------------------------- _insert_via_keypress, by key
\* the characters of a text, and those Controller.press raises for
Chars == {"a", "b", "x"}
CannotType == {"x"}
MaxLen == 3

RECURSIVE SeqsUpTo(_)
SeqsUpTo(n) ==
    IF n = 0 THEN {<<>>}
    ELSE LET shorter == SeqsUpTo(n - 1)
         IN shorter \cup {Append(t, c) : t \in {u \in shorter : Len(u) = n - 1}, c \in Chars}

KeypressTexts == SeqsUpTo(MaxLen)

\* no _insert_via_keypress call followed
KeypressIdle == [text |-> <<>>, pos |-> 0, typed |-> <<>>, result |-> "none"]

\* _insert_via_keypress(text) entered
KeypressCall(text) == [text |-> text, pos |-> 1, typed |-> <<>>, result |-> "running"]

\* one turn of the loop: press and release the character; an exception of
\* press leaves the loop through the except clause around it, return False
KeypressChar ==
    /\ keypress.result = "running"
    /\ keypress.pos <= Len(keypress.text)
    /\ LET char == keypress.text[keypress.pos]
       IN IF char \in CannotType
          THEN keypress' = [keypress EXCEPT !.result = "False"]
          ELSE keypress' = [keypress EXCEPT !.typed = Append(@, char), !.pos = @ + 1]
    /\ UNCHANGED <<method, ithreads, clipboard>>
    /\ UNCHANGED <<mainVars, kbVars, mwVars, recVars, tmVars>>

\* the loop ran through: return True
KeypressReturn ==
    /\ keypress.result = "running"
    /\ keypress.pos > Len(keypress.text)
    /\ keypress' = [keypress EXCEPT !.result = "True"]
    /\ UNCHANGED <<method, ithreads, clipboard>>
    /\ UNCHANGED <<mainVars, kbVars, mwVars, recVars, tmVars>>

\* ================================================= main.py, the lock file
MaxProcs == 3
Pids == 1..MaxProcs
NoPid == 0
NoLock == [ino |-> 0, pid |-> NoPid]
NotStarted == [pc |-> "idle", handle |-> 0, pid_str |-> NoPid, result |-> "none"]

\* psutil.pid_exists(pid)
PidExists(pid) == pid \in Pids /\ proc[pid].pc \notin {"idle", "exited", "dead"}

\* an os.remove that open handles of other processes do not stop
HandleClosed(ino) == FALSE

\* some process holds a handle of os.open on the file: os.remove of it fails
HandleOpen(ino) == \E q \in Pids : proc[q].handle = ino

At(p, pc) == [proc EXCEPT ![p].pc = pc]

\* main() entered, acquire_lock: os.path.exists(LOCK_FILE)
LockExists(p) ==
    /\ proc[p].pc = "idle"
    /\ proc' = At(p, IF lock_file.ino # 0 THEN "read" ELSE "create")
    /\ UNCHANGED <<lock_file, inodes>>

\* acquire_lock: open(LOCK_FILE, 'r'), f.read().strip(); an exception goes on
\* to the creation, and so does an empty file
LockRead(p) ==
    /\ proc[p].pc = "read"
    /\ IF lock_file.ino = 0 \/ lock_file.pid = NoPid
       THEN proc' = At(p, "create")
       ELSE proc' = [proc EXCEPT ![p].pc = "check", ![p].pid_str = lock_file.pid]
    /\ UNCHANGED <<lock_file, inodes>>

\* acquire_lock: import psutil, psutil.pid_exists(pid), pid == os.getpid()
LockCheckPid(p, psutil) ==
    /\ proc[p].pc = "check"
    /\ IF ~psutil
       THEN proc' = [proc EXCEPT ![p].pc = "exited", ![p].result = "False"]
       ELSE IF ~PidExists(proc[p].pid_str) \/ proc[p].pid_str = p
            THEN proc' = At(p, "remove")
            ELSE proc' = [proc EXCEPT ![p].pc = "exited", ![p].result = "False"]
    /\ UNCHANGED <<lock_file, inodes>>

\* acquire_lock: os.remove(LOCK_FILE) of the stale file; its exception is
\* caught and logged, the creation follows
LockRemoveStale(p) ==
    /\ proc[p].pc = "remove"
    /\ IF lock_file.ino = 0 \/ HandleOpen(lock_file.ino)
       THEN UNCHANGED lock_file
       ELSE lock_file' = NoLock
    /\ proc' = At(p, "create")
    /\ UNCHANGED inodes

\* acquire_lock: os.open(LOCK_FILE, O_CREAT | O_EXCL | O_RDWR)
LockCreate(p) ==
    /\ proc[p].pc = "create"
    /\ IF lock_file.ino # 0
       THEN /\ proc' = [proc EXCEPT ![p].pc = "exited", ![p].result = "False"]
            /\ UNCHANGED <<lock_file, inodes>>
       ELSE /\ inodes' = inodes + 1
            /\ lock_file' = [ino |-> inodes + 1, pid |-> NoPid]
            /\ proc' = [proc EXCEPT ![p].pc = "write", ![p].handle = inodes + 1]

\* acquire_lock: os.write(lock_handle, pid), return lock_handle, True
LockWrite(p) ==
    /\ proc[p].pc = "write"
    /\ lock_file' = IF lock_file.ino = proc[p].handle
                    THEN [lock_file EXCEPT !.pid = p]
                    ELSE lock_file
    /\ proc' = [proc EXCEPT ![p].pc = "running", ![p].result = "True"]
    /\ UNCHANGED inodes

\* aboutToQuit, release_lock: os.close(lock_file_handle)
ReleaseClose(p) ==
    /\ proc[p].pc = "running"
    /\ proc' = [proc EXCEPT ![p].pc = "closing", ![p].handle = 0]
    /\ UNCHANGED <<lock_file, inodes>>

\* release_lock: os.remove(LOCK_FILE), its exception passed over
ReleaseRemove(p) ==
    /\ proc[p].pc = "closing"
    /\ IF lock_file.ino = 0 \/ HandleOpen(lock_file.ino)
       THEN UNCHANGED lock_file
       ELSE lock_file' = NoLock
    /\ proc' = At(p, "exited")
    /\ UNCHANGED inodes

\* the process ends without aboutToQuit: its handle is closed, the file stays
Killed(p) ==
    /\ proc[p].pc = "running"
    /\ proc' = [proc EXCEPT ![p].pc = "dead", ![p].handle = 0]
    /\ UNCHANGED <<lock_file, inodes>>

notMain == <<kbVars, mwVars, recVars, tmVars, tiVars>>


\* ========================================================= specifications
\* KeyboardThread.__init__
InitKeyboard(shortcuts, modes) ==
    /\ physDown = {}
    /\ currently_pressed = {}
    /\ shortcut_keys \in {ParseShortcut(s) : s \in shortcuts}
    /\ kb_is_recording = FALSE
    /\ updRemaining = <<>>
    /\ kbLog = <<>>
    /\ intervalEngages = 0
    /\ starts = 0
    /\ listener \in modes

\* MainWindow.__init__ and the constructors it calls
InitProgram ==
    /\ queue = <<>>
    /\ timers = 0
    /\ recording = FALSE
    /\ transcribing = FALSE
    /\ status_label = "Idle"
    /\ overlay = "idle"
    /\ statusLog = <<>>
    /\ tray = "none"
    /\ sessions = 0
    /\ rec_is_recording = FALSE
    /\ stream = FALSE
    /\ frames = 0
    /\ workers = 0
    /\ rec_result = "none"
    /\ clock = 0
    /\ early_frames = FALSE
    /\ audio_file = [sid \in 1..MaxSessions |-> NoFile]
    /\ apiKey \in BOOLEAN
    /\ modelLoaded \in {m \in BOOLEAN : m => apiKey}
    /\ tthreads = {}
    /\ outcome = [sid \in 1..MaxSessions |-> "none"]
    /\ method \in Methods
    /\ ithreads = {}
    /\ clipboard = InitialClipboard

\* main() of the first process up to app.exec_(): the lock is its own, and no
\* keypress insertion is followed key by key
InitInstance ==
    /\ lock_file = [ino |-> 1, pid |-> 1]
    /\ proc = [p \in Pids |-> IF p = 1
                              THEN [NotStarted EXCEPT !.pc = "running", !.handle = 1,
                                                      !.result = "True"]
                              ELSE NotStarted]
    /\ inodes = 1
    /\ keypress = KeypressIdle

\* the program with the one-key hotkey, the user touching that key only,
\* within one second of the clock
Init == InitKeyboard({<<Hotkey>>}, {"running"}) /\ InitProgram /\ InitInstance

\* the program without a loaded provider model, its slots also called directly
InitSlots == Init /\ ~modelLoaded

\* the program with a loaded model and the keypress method, the clock running
InitFiles == Init /\ modelLoaded /\ method = "keypress"

\* the listener with the combinations of ShortcutInputs and all the keys
InitKb ==
    /\ InitKeyboard(ShortcutInputs, {"running"})
    /\ InitProgram /\ modelLoaded /\ method = "clipboard" /\ InitInstance

\* the listener thread started by start_keyboard_listener, run() not yet entered
InitStartup ==
    /\ InitKeyboard(ShortcutInputs, {"starting"})
    /\ InitProgram /\ modelLoaded /\ method = "clipboard" /\ InitInstance

\* _insert_via_keypress called with each of the texts
InitKeypress ==
    /\ InitKeyboard({<<Hotkey>>}, {"running"})
    /\ InitProgram /\ modelLoaded /\ method = "keypress"
    /\ lock_file = [ino |-> 1, pid |-> 1]
    /\ proc = [p \in Pids |-> IF p = 1
                              THEN [NotStarted EXCEPT !.pc = "running", !.handle = 1,
                                                      !.result = "True"]
                              ELSE NotStarted]
    /\ inodes = 1
    /\ keypress \in {KeypressCall(text) : text \in KeypressTexts}

\* no process started yet, no lock file
InitLock ==
    /\ InitKeyboard({<<Hotkey>>}, {"running"})
    /\ InitProgram /\ modelLoaded /\ method = "clipboard"
    /\ lock_file = NoLock
    /\ proc = [p \in Pids |-> NotStarted]
    /\ inodes = 0
    /\ keypress = KeypressIdle

notKb == <<timers, recording, transcribing, status_label, overlay, statusLog,
           tray, sessions, recVars, tmVars, tiVars, mainVars>>

HotkeyDown == OnPress(Hotkey) /\ UNCHANGED notKb
HotkeyUp == OnRelease(Hotkey) /\ UNCHANGED notKb
KeyDown == \E key \in PhysKeys : OnPress(key) /\ UNCHANGED notKb
KeyUp == \E key \in PhysKeys : OnRelease(key) /\ UNCHANGED notKb
SaveSettings == \E parts \in ShortcutInputs : UpdateShortcutBegin(parts) /\ UNCHANGED notKb
UpdateShortcut == UpdateShortcutStep /\ UNCHANGED notKb
RunListener == \E ok \in BOOLEAN : ListenerRun(ok) /\ UNCHANGED notKb
StartTimer == \E openOk \in BOOLEAN : StartRecordingImpl(openOk)
TranscribeOk ==
    \E t \in tthreads :
        \E text \in {Texts[t.sid], Texts[FileOwner(t.sid)], NoText} : TranscribeReturn(t, text)
TranscribeFail == \E t \in tthreads, kind \in ErrKinds : TranscribeRaise(t, kind)
InsSnapshot == \E t \in ithreads : InsertSnapshot(t)
InsCopy == \E t \in ithreads : InsertCopy(t)
InsPaste == \E t \in ithreads, ok \in BOOLEAN : InsertPaste(t, ok)
InsRestore == \E t \in ithreads : InsertRestore(t)
InsKeypress == \E t \in ithreads, ok \in BOOLEAN : InsertKeypress(t, ok)

NextKeys == KeyDown \/ KeyUp
NextKb == KeyDown \/ KeyUp \/ SaveSettings \/ UpdateShortcut
NextProgram ==
    \/ DeliverStart \/ DeliverStop \/ DeliverCompleted \/ DeliverError
    \/ StartTimer \/ RecordChunk \/ RecordExit \/ RecordError
    \/ TranscribeOk \/ TranscribeFail
    \/ InsSnapshot \/ InsCopy \/ InsPaste \/ InsRestore \/ InsKeypress
Next == HotkeyDown \/ HotkeyUp \/ NextProgram
NextSlots ==
    \/ HotkeyDown \/ HotkeyUp \/ DeliverStart \/ DeliverStop
    \/ StartTimer \/ RecordChunk \/ RecordExit \/ RecordError
    \/ SlotStartRecording \/ SlotStopRecording

NextFiles ==
    \/ HotkeyDown \/ HotkeyUp
    \/ DeliverStart \/ DeliverStop \/ DeliverCompleted \/ DeliverError
    \/ StartTimer \/ RecordChunk \/ RecordExit \/ RecordError \/ Tick
    \/ TranscribeOk \/ TranscribeFail \/ InsKeypress

NextStartup == RunListener \/ NextKb

NextKeypress == KeypressChar \/ KeypressReturn

StartProcess == \E p \in Pids : LockExists(p) /\ UNCHANGED notMain
ReadLock == \E p \in Pids : LockRead(p) /\ UNCHANGED notMain
CheckPid == \E p \in Pids, psutil \in BOOLEAN : LockCheckPid(p, psutil) /\ UNCHANGED notMain
RemoveStale == \E p \in Pids : LockRemoveStale(p) /\ UNCHANGED notMain
CreateLock == \E p \in Pids : LockCreate(p) /\ UNCHANGED notMain
WritePid == \E p \in Pids : LockWrite(p) /\ UNCHANGED notMain
Quit == \E p \in Pids : ReleaseClose(p) /\ UNCHANGED notMain
RemoveLock == \E p \in Pids : ReleaseRemove(p) /\ UNCHANGED notMain
Kill == \E p \in Pids : Killed(p) /\ UNCHANGED notMain
NextLock ==
    \/ StartProcess \/ ReadLock \/ CheckPid \/ RemoveStale \/ CreateLock
    \/ WritePid \/ Quit \/ RemoveLock \/ Kill

Spec == Init /\ [][Next]_vars
SpecStartup == InitStartup /\ [][NextStartup]_vars
SpecFiles == InitFiles /\ [][NextFiles]_vars
SpecKeys == InitKb /\ [][NextKeys]_vars
SpecKb == InitKb /\ [][NextKb]_vars
SpecSlots == InitSlots /\ [][NextSlots]_vars
SpecKeypress == InitKeypress /\ [][NextKeypress]_vars
SpecLock == InitLock /\ [][NextLock]_vars

\* ============================================================== properties
\* the sessions whose transcription has not yet been delivered to MainWindow
InFlight ==
    {t.sid : t \in tthreads} \cup
    {queue[i].sid : i \in {j \in 1..Len(queue) : queue[j].type \in {"completed", "error"}}}

\* the sessions that are recording, transcribing or inserting
NonIdle ==
    (IF recording THEN {sessions} ELSE {}) \cup InFlight \cup {t.sid : t \in ithreads}

\* the error values the observers can be handed
ErrorValues ==
    {ErrorClass(k) : k \in ErrKinds} \cup
    {"Audio file not found", "missing_api_key:gemini_flash", "Model gemini_flash not available"}

RECURSIVE Dedup(_)
Dedup(seq) ==
    IF Len(seq) <= 1 THEN seq
    ELSE IF seq[1] = seq[2] THEN Dedup(Tail(seq))
    ELSE <<seq[1]>> \o Dedup(Tail(seq))

\* the status_label texts and the overlay states of the first session, in order
Labels == [i \in 1..Len(statusLog) |-> statusLog[i].label]
OverlayStates == Dedup([i \in 1..Len(statusLog) |-> statusLog[i].overlay])

\* C1: at every instant at most one session is recording, transcribing or inserting
C1_AtMostOneActive == Cardinality(NonIdle) <= 1

\* C2: a start event handled while a transcription is in flight is rejected:
\* no session is created, no recorder start is scheduled, the flags stay as they are
C2_EngageRejectedWhileTranscribing ==
    [][(transcribing /\ DeliverStart) =>
           UNCHANGED <<recording, transcribing, sessions, timers>>]_vars

\* C3: at most one transcription is in flight (started and not yet delivered)
C3_OneInFlight == Cardinality(InFlight) <= 1

\* C4: the signals of the listener alternate, recording_started first
C4_Alternation ==
    \A i \in 1..Len(kbLog) : kbLog[i] = (IF i % 2 = 1 THEN "E" ELSE "R")

C4_Witness == Len(kbLog) >= 4 /\ physDown = {}

\* C5: recording_started is emitted at most once per interval in which the held
\* keys cover the combination
C5_OncePerInterval == intervalEngages <= 1

\* C6: a start event handled while MainWindow.recording is set changes nothing:
\* no session, no recorder start, the recorder and its frames untouched
C6_EngageIgnoredWhileRecording ==
    [][(recording /\ (DeliverStart \/ SlotStartRecording)) =>
           UNCHANGED <<recording, transcribing, sessions, timers, status_label,
                       overlay, statusLog, tray, recVars, tmVars, tiVars>>]_vars

C6_Witness ==
    /\ recording /\ rec_is_recording /\ frames > 0
    /\ sessions = 1 /\ starts = 2 /\ queue = <<>>

\* the recorder is stopped with no frame captured
ZeroFrameStop == DeliverStop /\ recording /\ rec_is_recording /\ frames = 0

C10_ClipboardRestored ==
    [][\A t \in ithreads :
          (/\ t.method = "clipboard"
           /\ t.pc \in {"copied", "pasted"}
           /\ \A u \in ithreads' : u.sid # t.sid)
          => clipboard' = t.snap]_vars

\* the clipboard insertions between their snapshot and their restore
InClipboardSequence ==
    {t \in ithreads : t.method = "clipboard" /\ t.pc \in {"snapped", "copied", "pasted"}}

\* C11: at most one clipboard insertion is between its snapshot and its restore
C11_OneClipboardSequence == Cardinality(InClipboardSequence) <= 1

\* C12: when an insertion fails (the simulated paste raises), a failure status is
\* published: the status label, the overlay or the tray message changes
C12_InsertFailurePublished ==
    [][(\E t \in ithreads : InsertPaste(t, FALSE)) =>
           <<status_label, overlay, tray>>' # <<status_label, overlay, tray>>]_vars

\* the WAV file of session s is in the temporary directory: _save_to_wav wrote
\* it, and nothing in the program removes a file
FileExists(s) == audio_file[s] # NoFile

\* the sessions that have handed a file to transcribe
Handed == {s \in 1..MaxSessions : FileExists(s)}

\* C13: once the transcription of a session has been delivered, its WAV file
\* has been deleted
C13_ArtifactDisposed ==
    \A s \in 1..MaxSessions : outcome[s] # "none" => ~FileExists(s)

\* C14: two sessions never hand the same file path to transcribe
C14_ArtifactNotShared ==
    \A s, u \in Handed : s # u => audio_file[s] # audio_file[u]

\* C15: whenever MainWindow is not recording, the AudioRecorder has no active
\* capture and no live worker thread
C15_NoCaptureOutsideRecording ==
    ~recording => (~rec_is_recording /\ workers = 0)

\* the combinations update_shortcut can be asked to install
CompleteShortcuts == {ParseShortcut(parts) : parts \in ShortcutInputs}

\* C17: every key event is matched against a complete combination, the old one
\* or the new one, never against the set update_shortcut is still filling
C17_UpdateAtomic ==
    [][(KeyDown \/ KeyUp) => shortcut_keys \in CompleteShortcuts]_vars

\* the physical variants of the logical key ctrl
CtrlVariants == {k \in PhysKeys : NormalizeKey(k) = "ctrl" /\ k # "ctrl"}

\* C18: ctrl counts as held exactly while at least one of ctrl_l, ctrl_r is down
C18_ModifierHeldWhileAnyVariantDown ==
    ("ctrl" \in currently_pressed) <=> (physDown \cap CtrlVariants # {})

\* a signal was emitted by the step
Emitted == Len(kbLog') > Len(kbLog)

C20_ListenerFailureReported ==
    listener = "failed" =>
        (status_label # "Idle" \/ overlay # "idle" \/ tray # "none")

\* the status labels that tell the observers of a failure
FailureLabels == {"Failed to save recording", "Error during transcription"}

\* C16: a failure leaves no trace on the next session: when the deferred
\* recorder start of the session being recorded runs and the device opens, a
\* new recording begins (capture active, stream open, worker live, no frames)
C16_FailedNotSticky ==
    [][(recording /\ timers = 1 /\ StartRecordingImpl(TRUE)) =>
           (rec_is_recording' /\ stream' /\ workers' > 0 /\ frames' = 0)]_vars

\* the parts of C16 the code keeps: the step that publishes a failure clears the
\* flag of the phase that failed, and a start event handled while not recording
\* is accepted whatever failed before
C16_FailureReturnsToIdle ==
    /\ [][(DeliverStop /\ recording /\ status_label' \in FailureLabels) => ~recording']_vars
    /\ [][DeliverError => (~transcribing' /\ status_label' \in FailureLabels)]_vars
    /\ [][(DeliverStart /\ ~recording) =>
            (recording' /\ sessions' = sessions + 1 /\ timers' = timers + 1)]_vars

\* the outcomes of an AudioRecorder call that are exceptions raised to the caller
Raised == {"open raised"}

\* C21 as claimed: start_recording called while a capture is active raises an
\* error to its caller and opens no second stream and starts no second worker
C21_AlreadyRecordingRaised ==
    [][(StartTimer /\ rec_is_recording) =>
           (rec_result' \in Raised /\ UNCHANGED <<stream, workers>>)]_vars

\* C21 as amended: start_recording called while a capture is active logs the
\* warning "Already recording" and returns None like a successful start; it
\* opens no second stream, starts no second worker and leaves the frames
C21_AlreadyRecordingIgnored ==
    [][(StartTimer /\ rec_is_recording) =>
           /\ rec_result' = "Already recording"
           /\ rec_result' \notin Raised
           /\ UNCHANGED <<rec_is_recording, stream, frames, workers>>
           /\ UNCHANGED <<recording, transcribing, status_label, overlay, tray>>]_vars

C21_Witness ==
    /\ rec_result = "Already recording"
    /\ rec_is_recording /\ stream /\ workers = 1 /\ frames > 0 /\ timers = 0

\* the error classes transcribe and _transcribe_thread emit as codes
CoarseClasses ==
    {"missing_api_key:gemini_flash", "network_error:gemini_flash", "api_error:gemini_flash"}

\* C22: every error value handed to on_transcription_error is a coarse class
C22_OnlyCoarseClasses ==
    [][\A s \in 1..MaxSessions :
          (outcome[s] # "error" /\ outcome'[s] = "error") => tray' \in CoarseClasses]_vars

\* C23: a start event is handled to completion, the AudioRecorder.start_recording
\* call included, before the stop event of the session: when stop_recording runs
\* for a session no recorder start is still pending
C23_StartBeforeStop ==
    [][(DeliverStop /\ recording) => timers = 0]_vars

\* a slot of MainWindow run by the event loop of the main thread
MainThreadSlot == DeliverStart \/ DeliverStop \/ DeliverCompleted \/ DeliverError

\* C24: MainWindow.recording and MainWindow.transcribing are written only by
\* slots run on the main thread; the listener thread and the transcription
\* threads only queue their signals
C24_StateWrittenOnMainThread ==
    /\ [][(recording' # recording \/ transcribing' # transcribing) => MainThreadSlot]_vars
    /\ [][(HotkeyDown \/ HotkeyUp \/ TranscribeOk \/ TranscribeFail) =>
            (Len(queue') = Len(queue) + 1 \/ UNCHANGED queue)
            /\ UNCHANGED <<timers, recording, transcribing, status_label, overlay,
                           tray, sessions, outcome>>]_vars

C24_Witness ==
    /\ kbLog = <<"E", "R">> /\ queue = <<>> /\ tthreads = {}
    /\ sessions = 1 /\ ~recording /\ ~transcribing /\ outcome[1] = "text"

\* the characters of a text that Controller.press accepts, in their order
Supported(text) == SelectSeq(text, LAMBDA char : char \notin CannotType)

\* C25: when _insert_via_keypress has returned, every character of the text
\* that can be simulated was typed, in order, the others were skipped, and the
\* call failed only if no character at all could be typed
C25_UnsupportedSkipped ==
    keypress.result \in {"True", "False"} =>
        /\ keypress.typed = Supported(keypress.text)
        /\ (keypress.result = "False" => Supported(keypress.text) = <<>>)

\* processes that got (handle, True) from acquire_lock and have not released it
Holders == {p \in Pids : proc[p].pc = "running"}

\* C30: at most one live process holds the lock of acquire_lock, and a process
\* that ran acquire_lock while another one held it got (None, False)
C30_MutualExclusion ==
    /\ Cardinality(Holders) <= 1
    /\ Cardinality({p \in Pids : proc[p].handle # 0}) <= 1
    /\ \A p \in Pids : proc[p].handle # 0 => lock_file.ino = proc[p].handle

C30_Witness ==
    \E p, q, r \in Pids :
        /\ proc[p].pc = "dead" /\ proc[q].pc = "running" /\ proc[r].result = "False"
        /\ lock_file.pid = q /\ inodes >= 2

\* C26: an AudioRecorder.start_recording that raises ends the session as failed
\* (a failure status, MainWindow.recording reset) and leaves the recorder
\* inactive, and the start_recording after it is not turned away as
\* "Already recording"
C26_FailedStartLeavesInactive ==
    /\ [][(StartTimer /\ ~RecorderActive /\ rec_result' \in Raised) =>
            (~rec_is_recording' /\ ~recording' /\ status_label' \in FailureLabels)]_vars
    /\ [][(StartTimer /\ rec_result \in Raised) => rec_result' # "Already recording"]_vars

\* C27: between key events, when currently_pressed is empty the listener is not
\* recording and its last signal, if any, was recording_stopped, whatever
\* update_shortcut has made of shortcut_keys meanwhile
C27_NoKeyNoCombo ==
    currently_pressed = {} =>
        /\ ~kb_is_recording
        /\ (kbLog = <<>> \/ kbLog[Len(kbLog)] = "R")

C27_Witness ==
    /\ currently_pressed = {} /\ kbLog = <<"E", "R">>
    /\ shortcut_keys = {} /\ updRemaining # <<>>

\* C28: the WAV file stop_recording saves for a session holds no chunk that was
\* read before the combination of the session was engaged
C28_OnlySessionFrames ==
    [][(DeliverStop /\ recording /\ rec_result' = "saved") => ~early_frames]_vars

\* the text of session a is known and insert_text has not been called for it:
\* its transcription_completed waits in the queue or its thread still sleeps
TextPending(a) ==
    \/ \E u \in ithreads : u.sid = a /\ u.pc = "delay"
    \/ \E i \in 1..Len(queue) :
          queue[i].type = "completed" /\ queue[i].sid = a /\ queue[i].val # NoText

\* C29: the texts reach the inserter in the order of their sessions: the text
\* of a session is not handed to insert_text_async after the text of a later
\* session, and insert_text is not called for a session while the text of an
\* earlier session still waits for its call
C29_InsertedInOrder ==
    /\ [][\A a \in 1..MaxSessions :
            (outcome[a] # "text" /\ outcome'[a] = "text") =>
                \A b \in (a + 1)..MaxSessions : outcome[b] # "text"]_vars
    /\ [][\A t \in ithreads :
            (t.pc = "delay" /\ t \notin ithreads') =>
                \A a \in 1..(t.sid - 1) : ~TextPending(a)]_vars

====
